---- MODULE Spec2Model ----
(***************************************************************************)
(* Model of app.py, the moisture-sensor monitor: the module-level          *)
(* configuration loading (Config.get_config and the coercions applied to   *)
(* its results), the wiring of the sensor's two handler slots, the         *)
(* polling loop SDIMoistureSensor.run and the try/except/finally around    *)
(* it.                                                                     *)
(*                                                                         *)
(* Python values are records tagged by their type; a Python str is a       *)
(* sequence of one-character strings, so that str(), int(), float() and    *)
(* getboolean() are computed character by character.                       *)
(***************************************************************************)
EXTENDS Integers, Sequences, FiniteSets, TLC

(***************************************************************************)
(* Bounds of the model.                                                    *)
(***************************************************************************)
\* number of sensor reads explored in one run of the loop
MaxIter == 4

(***************************************************************************)
(* Python values.                                                          *)
(***************************************************************************)
None == [t |-> "None"]
PInt(n) == [t |-> "int", n |-> n]
PStr(s) == [t |-> "str", s |-> s]
PBool(b) == [t |-> "bool", b |-> b]
PFloat(num, den) == [t |-> "float", num |-> num, den |-> den]
Raise(e) == [t |-> "raise", e |-> e]

Digits == <<"0", "1", "2", "3", "4", "5", "6", "7", "8", "9">>
IsDigit(c) == \E i \in 1..10 : Digits[i] = c
DigitVal(c) == (CHOOSE i \in 1..10 : Digits[i] = c) - 1

RECURSIVE NatToStr(_)
NatToStr(n) ==
    IF n < 10 THEN <<Digits[n + 1]>>
    ELSE NatToStr(n \div 10) \o <<Digits[(n % 10) + 1]>>

\* str( x ) for the values get_config passes to it
Str(v) ==
    CASE v.t = "int" -> PStr(IF v.n < 0 THEN <<"-">> \o NatToStr(-v.n) ELSE NatToStr(v.n))
      [] v.t = "str" -> v
      [] v.t = "bool" -> PStr(IF v.b THEN <<"T", "r", "u", "e">> ELSE <<"F", "a", "l", "s", "e">>)
      [] v.t = "None" -> PStr(<<"N", "o", "n", "e">>)

RECURSIVE DigitsVal(_)
DigitsVal(s) ==
    IF s = <<>> THEN 0
    ELSE 10 * DigitsVal(SubSeq(s, 1, Len(s) - 1)) + DigitVal(s[Len(s)])

AllDigits(s) == \A i \in 1..Len(s) : IsDigit(s[i])
HasSign(s) == Len(s) > 0 /\ s[1] \in {"-", "+"}
Unsigned(s) == IF HasSign(s) THEN Tail(s) ELSE s
Sign(s) == IF Len(s) > 0 /\ s[1] = "-" THEN -1 ELSE 1

\* int( s ) reading a text that is not a number as 0
ToInt_lenient(v) ==
    CASE v.t = "int" -> v
      [] v.t = "bool" -> PInt(IF v.b THEN 1 ELSE 0)
      [] v.t = "str" ->
            IF Unsigned(v.s) # <<>> /\ AllDigits(Unsigned(v.s))
            THEN PInt(Sign(v.s) * DigitsVal(Unsigned(v.s)))
            ELSE PInt(0)

\* int( s ) of a str: an optional sign and one or more decimal digits
ToInt(v) ==
    CASE v.t = "int" -> v
      [] v.t = "bool" -> PInt(IF v.b THEN 1 ELSE 0)
      [] v.t = "str" ->
            IF Unsigned(v.s) # <<>> /\ AllDigits(Unsigned(v.s))
            THEN PInt(Sign(v.s) * DigitsVal(Unsigned(v.s)))
            ELSE Raise("ValueError")

RECURSIVE Pow10(_)
Pow10(k) == IF k = 0 THEN 1 ELSE 10 * Pow10(k - 1)

RECURSIVE Reduce(_, _)
\* the fraction num/den, den a power of ten, without trailing zeros
Reduce(num, den) ==
    IF den > 1 /\ num % 10 = 0 THEN Reduce(num \div 10, den \div 10) ELSE PFloat(num, den)

DotAt(s) == IF \E i \in 1..Len(s) : s[i] = "." THEN CHOOSE i \in 1..Len(s) : s[i] = "." ELSE 0

\* float( s ) of a str: an optional sign, digits, at most one decimal point
ToFloat(v) ==
    CASE v.t = "int" -> PFloat(v.n, 1)
      [] v.t = "str" ->
            LET u == Unsigned(v.s)
                d == DotAt(u)
                ip == IF d = 0 THEN u ELSE SubSeq(u, 1, d - 1)
                fp == IF d = 0 THEN <<>> ELSE SubSeq(u, d + 1, Len(u))
            IN  IF AllDigits(ip) /\ AllDigits(fp) /\ Len(ip) + Len(fp) > 0
                THEN Reduce(Sign(v.s) * (DigitsVal(ip) * Pow10(Len(fp)) + DigitsVal(fp)),
                            Pow10(Len(fp)))
                ELSE Raise("ValueError")

\* bool( x ): a str is true when it is not empty
ToBool(v) ==
    CASE v.t = "bool" -> v
      [] v.t = "str" -> PBool(v.s # <<>>)
      [] v.t = "int" -> PBool(v.n # 0)

Lower(c) ==
    CASE c = "T" -> "t" [] c = "F" -> "f" [] c = "Y" -> "y" [] c = "N" -> "n"
      [] c = "O" -> "o" [] OTHER -> c
LowerStr(s) == [i \in 1..Len(s) |-> Lower(s[i])]

\* ConfigParser.getboolean on the text of an option
GetBoolean(s) ==
    LET l == LowerStr(s)
    IN  IF l \in {<<"1">>, <<"y", "e", "s">>, <<"t", "r", "u", "e">>, <<"o", "n">>}
        THEN PBool(TRUE)
        ELSE IF l \in {<<"0">>, <<"n", "o">>, <<"f", "a", "l", "s", "e">>, <<"o", "f", "f">>}
        THEN PBool(FALSE)
        ELSE Raise("ValueError")

\* the module-level coercion applied to what get_config returned
Coerce(ty, v) ==
    CASE ty = "int" -> ToInt(v)
      [] ty = "float" -> ToFloat(v)
      [] ty = "bool" -> ToBool(v)
      [] ty = "str" -> Str(v)

(***************************************************************************)
(* The settings, in the order the module resolves them, each with the      *)
(* keyword arguments of its get_config call and the coercion applied to    *)
(* the result.  The text of a str default is kept as one token.            *)
(***************************************************************************)
Setting(name, default, cmd_line, env_var, ini_section, ini_bool, coerce) ==
    [name |-> name, default |-> default, cmd_line |-> cmd_line, env_var |-> env_var,
     ini |-> TRUE, ini_section |-> ini_section, ini_bool |-> ini_bool, coerce |-> coerce]

DefaultValues ==
    [CHANNEL |-> PInt(0), SPI_PORT |-> PInt(0), SPI_DEVICE |-> PInt(0),
     POLLING_RATE |-> PInt(5), LOG_ENABLE |-> PBool(TRUE), LOG_MAXSIZE |-> PInt(100),
     LOG_PATH |-> PStr(<<"/var/log/moisture-sensor">>),
     SMTP_HOST |-> PStr(<<"email-smtp.us-east-1.amazonaws.com">>),
     SMTP_PORT |-> PInt(587), SMTP_USER |-> PStr(<<"user">>),
     SMTP_PASS |-> PStr(<<"password">>),
     SMTP_FROM |-> PStr(<<"Mr. Plant Bot <plantbot@your.domain>">>),
     SMTP_TO |-> PStr(<<"you@domain.com">>),
     EMAIL_SUBJECT |-> PStr(<<"Moisture Sensor Notification">>),
     EMAIL_TMPL_FILENAME |-> PStr(<<"no-moisture.email.html">>)]

Settings ==
    << Setting("CHANNEL", DefaultValues.CHANNEL, TRUE, TRUE, "IO", FALSE, "int"),
       Setting("SPI_PORT", DefaultValues.SPI_PORT, TRUE, TRUE, "IO", FALSE, "int"),
       Setting("SPI_DEVICE", DefaultValues.SPI_DEVICE, TRUE, TRUE, "IO", FALSE, "int"),
       Setting("POLLING_RATE", DefaultValues.POLLING_RATE, TRUE, TRUE, "IO", FALSE, "float"),
       Setting("EMAIL_SUBJECT", DefaultValues.EMAIL_SUBJECT, FALSE, FALSE, "EMAIL", FALSE, "str"),
       Setting("EMAIL_TMPL_FILENAME", DefaultValues.EMAIL_TMPL_FILENAME, FALSE, FALSE, "EMAIL", FALSE, "str"),
       Setting("SMTP_HOST", DefaultValues.SMTP_HOST, FALSE, FALSE, "EMAIL", FALSE, "str"),
       Setting("SMTP_PORT", DefaultValues.SMTP_PORT, FALSE, FALSE, "EMAIL", FALSE, "int"),
       Setting("SMTP_USER", DefaultValues.SMTP_USER, FALSE, FALSE, "EMAIL", FALSE, "str"),
       Setting("SMTP_PASS", DefaultValues.SMTP_PASS, FALSE, FALSE, "EMAIL", FALSE, "str"),
       Setting("SMTP_FROM", DefaultValues.SMTP_FROM, FALSE, FALSE, "EMAIL", FALSE, "str"),
       Setting("SMTP_TO", DefaultValues.SMTP_TO, FALSE, FALSE, "EMAIL", FALSE, "str"),
       Setting("LOG_ENABLE", DefaultValues.LOG_ENABLE, FALSE, FALSE, "LOGGING", TRUE, "bool"),
       Setting("LOG_MAXSIZE", DefaultValues.LOG_MAXSIZE, FALSE, FALSE, "LOGGING", FALSE, "int"),
       Setting("LOG_PATH", DefaultValues.LOG_PATH, FALSE, FALSE, "LOGGING", FALSE, "str") >>

NSettings == Len(Settings)

\* the settings ARGPARSER declares an option for
ARGPARSER == {"CHANNEL", "SPI_PORT", "SPI_DEVICE", "POLLING_RATE"}

(***************************************************************************)
(* Inputs of the configuration sources.                                    *)
(***************************************************************************)
\* what argparse (type=int) leaves in an attribute of args
ArgValues == {None, PInt(0), PInt(7)}
\* what os.environ holds for a name: nothing, or a text
EnvValues == {None, PStr(<<"3">>), PStr(<<"a">>)}
\* what the file holds for an option of a section: nothing, or a text
IniValues == {None, PStr(<<"2">>), PStr(<<"0", ".", "5">>), PStr(<<"o", "n">>)}
IniSectionNames == {"IO", "EMAIL", "LOGGING"}

\* a > b of Python 2 for a str a and an int b: objects of different types
\* are ordered by the names of their types, and "str" > "int"
PyGreater(a, b) ==
    CASE a.t = "str" /\ b.t = "int" -> TRUE
      [] a.t = "int" /\ b.t = "int" -> a.n > b.n

\* config_parser.get( section, name ) on a file that was read
ConfigParserGet(sections, section, option) ==
    IF section \notin sections THEN Raise("NoSectionError")
    ELSE IF option.t = "None" THEN Raise("NoOptionError")
    ELSE option

\* get_config looking at the environment before the command line
get_config_env_first(s, arg, env, sections, option) ==
    IF s.env_var /\ env.t # "None" THEN Str(env)
    ELSE IF s.cmd_line /\ arg.t # "None" THEN Str(arg)
    ELSE IF s.ini
    THEN LET got == ConfigParserGet(sections, s.ini_section, option)
         IN  IF got.t = "raise" THEN got
             ELSE IF PyGreater(got, PInt(-1))
             THEN IF s.ini_bool THEN GetBoolean(got.s) ELSE Str(got)
             ELSE Str(s.default)
    ELSE Str(s.default)

\* get_config looking at the file before the environment
get_config_ini_first(s, arg, env, sections, option) ==
    IF s.cmd_line /\ arg.t # "None" THEN Str(arg)
    ELSE IF s.ini /\ ConfigParserGet(sections, s.ini_section, option).t # "raise"
    THEN LET got == ConfigParserGet(sections, s.ini_section, option)
         IN  IF s.ini_bool THEN GetBoolean(got.s) ELSE Str(got)
    ELSE IF s.env_var /\ env.t # "None" THEN Str(env)
    ELSE Str(s.default)

\* Config.get_config: arg is getattr( self.args, name.lower() ), env is
\* os.environ's entry for name, option is the file's entry for it
get_config(s, arg, env, sections, option) ==
    IF s.cmd_line /\ arg.t # "None" THEN Str(arg)
    ELSE IF s.env_var /\ env.t # "None" THEN Str(env)
    ELSE IF s.ini
    THEN LET got == ConfigParserGet(sections, s.ini_section, option)
         IN  IF got.t = "raise" THEN got
             ELSE IF PyGreater(got, PInt(-1))
             THEN IF s.ini_bool THEN GetBoolean(got.s) ELSE Str(got)
             ELSE Str(s.default)
    ELSE Str(s.default)

\* one line of the configuration loading: get_config, then the coercion
LoadSetting(s, arg, env, sections, option) ==
    LET r == get_config(s, arg, env, sections, option)
    IN  IF r.t = "raise" THEN r ELSE Coerce(s.coerce, r)

(***************************************************************************)
(* The sensor and its loop.                                                *)
(***************************************************************************)
\* values read_adc returns in the model (the MCP3008 gives 0..1023)
Readings == {0, 550, 600, 700}

\* what a handler slot can hold: the Event object __init__ puts there, or
\* one of the two module-level handler functions
EventObject == "Event"
Handlers == {"handle_moisture_gain", "handle_moisture_loss"}

\* Classify with the two directions exchanged
Classify_swapped(prev, cur) ==
    IF cur # prev
    THEN IF cur < prev THEN "Loss"
         ELSE IF cur > prev THEN "Gain"
         ELSE "None"
    ELSE "None"

\* Classify without the guard value != prev_value, equal counting as a rise
Classify_unguarded(prev, cur) ==
    IF cur < prev THEN "Gain" ELSE "Loss"

\* the comparison of run: which slot, if any, is invoked for a reading
Classify(prev, cur) ==
    IF cur # prev
    THEN IF cur < prev THEN "Gain"
         ELSE IF cur > prev THEN "Loss"
         ELSE "None"
    ELSE "None"

\* the exceptions the except clause around run swallows
Caught == {"KeyboardInterrupt", "EOFError"}

VARIABLES
    pc,            \* where the script is
    iniFile,       \* the .ini file next to the script: "absent", "malformed" or "ok"
    iniSections,   \* the sections config_parser holds after read
    cfgIdx,        \* the number of settings resolved so far
    last,          \* the last get_config call of the loading: its setting, inputs and outcome
    anySupplied,   \* some setting so far had an argument or an environment variable
    CHANNEL, POLLING_RATE,       \* the resolved module-level settings the loop is meant to use
    sensor,        \* the attributes __init__ sets: channel, polling_rate
    on_moisture_gain, on_moisture_loss,   \* the two handler slots
    prev_value, value,           \* the locals of run
    GAIN_COUNT, LOSS_COUNT,
    readings,      \* history: the values read so far
    transitions,   \* history: the classification of each reading
    invoked,       \* history: the slot and handler called by the last iteration
    nReads,        \* history: the number of read_adc calls
    nCalls,        \* history: the number of handler invocations
    fault,         \* the kind of the acquisition fault read_adc raised, if any
    io,            \* history: the channel of the last read_adc, the length of the last sleep
    assigned,      \* history: the last value given to each slot's setter
    exc,           \* the exception propagating, and where it was raised
    exiting,       \* the number of 'Exiting...' log entries
    exit_code

vars == <<pc, iniFile, iniSections, cfgIdx, last, anySupplied, CHANNEL, POLLING_RATE,
          sensor, on_moisture_gain, on_moisture_loss, prev_value, value,
          GAIN_COUNT, LOSS_COUNT, readings, transitions, invoked, nReads, nCalls,
          fault, io, assigned, exc, exiting, exit_code>>

cfgVars == <<iniFile, iniSections, cfgIdx, last, anySupplied, CHANNEL, POLLING_RATE>>
loopVars == <<prev_value, value, readings, transitions, invoked, nReads, nCalls, fault, io>>
countVars == <<GAIN_COUNT, LOSS_COUNT>>
slotVars == <<on_moisture_gain, on_moisture_loss, assigned>>
endVars == <<exc, exiting, exit_code>>

NoCall == [slot |-> "none", handler |-> "none"]
NoExc == [name |-> "None", at |-> "none"]

\* the states of the polling loop's life cycle
LoopState ==
    CASE pc \in {"start", "config", "logging", "construct", "wire"} -> "Idle"
      [] pc \in {"read", "dispatch", "sleep"} -> "Running"
      [] pc = "finally" -> "Stopping"
      [] pc = "exited" -> "Stopped"

Init ==
    /\ pc = "start"
    /\ iniFile \in {"absent", "malformed", "ok"}
    /\ iniSections = {}
    /\ cfgIdx = 0
    /\ last = [name |-> "none"]
    /\ anySupplied = FALSE
    /\ CHANNEL = None
    /\ POLLING_RATE = None
    /\ sensor = None
    /\ on_moisture_gain = "unset"
    /\ on_moisture_loss = "unset"
    /\ prev_value = 0
    /\ value = 0
    /\ GAIN_COUNT = 0
    /\ LOSS_COUNT = 0
    /\ readings = <<>>
    /\ transitions = <<>>
    /\ invoked = NoCall
    /\ nReads = 0
    /\ nCalls = 0
    /\ fault = "none"
    /\ io = [channel |-> None, slept |-> None]
    /\ assigned = [gain |-> "none", loss |-> "none"]
    /\ exc = NoExc
    /\ exiting = 0
    /\ exit_code = -1

\* an exception that reaches the top level outside the try statement:
\* the interpreter prints it and exits with status 1
Crash(name, at) ==
    /\ pc' = "exited"
    /\ exc' = [name |-> name, at |-> at]
    /\ exit_code' = 1
    /\ UNCHANGED exiting

\* an exception raised inside the try statement: it propagates to the
\* except and finally clauses
Propagate(name, at) ==
    /\ pc' = "finally"
    /\ exc' = [name |-> name, at |-> at]
    /\ UNCHANGED <<exiting, exit_code>>

\* Config.__init__: ConfigParser.read skips a file it cannot open and
\* raises on one it cannot parse
ConfigInit ==
    /\ pc = "start"
    /\ IF iniFile = "malformed"
       THEN /\ Crash("ParsingError", "config")
            /\ UNCHANGED iniSections
       ELSE /\ pc' = "config"
            /\ iniSections' \in IF iniFile = "absent" THEN {{}} ELSE SUBSET IniSectionNames
            /\ UNCHANGED endVars
    /\ UNCHANGED <<iniFile, cfgIdx, last, anySupplied, CHANNEL, POLLING_RATE>>
    /\ UNCHANGED <<sensor, slotVars, loopVars, countVars>>

\* one of the lines CHANNEL = int( ARGPARSERCONFIG.get_config( ... ) ) ...
ResolveSetting ==
    /\ pc = "config"
    /\ cfgIdx < NSettings
    /\ LET s == Settings[cfgIdx + 1]
       IN \E arg \in ArgValues, env \in EnvValues, option \in IniValues :
            /\ s.name \notin ARGPARSER => arg = None
            /\ s.ini_section \notin iniSections => option = None
            /\ LET r == get_config(s, arg, env, iniSections, option)
                   v == LoadSetting(s, arg, env, iniSections, option)
               IN /\ last' = [name |-> s.name, arg |-> arg, env |-> env,
                              section |-> s.ini_section \in iniSections,
                              option |-> option, returned |-> r, resolved |-> v]
                  /\ anySupplied' = (anySupplied \/ arg # None \/ env # None)
                  /\ IF v.t = "raise"
                     THEN /\ Crash(v.e, "config")
                          /\ UNCHANGED <<cfgIdx, CHANNEL, POLLING_RATE>>
                     ELSE /\ cfgIdx' = cfgIdx + 1
                          /\ pc' = IF cfgIdx + 1 = NSettings THEN "logging" ELSE "config"
                          /\ CHANNEL' = IF s.name = "CHANNEL" THEN v ELSE CHANNEL
                          /\ POLLING_RATE' = IF s.name = "POLLING_RATE" THEN v ELSE POLLING_RATE
                          /\ UNCHANGED endVars
    /\ UNCHANGED <<iniFile, iniSections>>
    /\ UNCHANGED <<sensor, slotVars, loopVars, countVars>>

\* check_log_dir and init_logging; os.makedirs may fail and the error is
\* raised again.  The configuration loading is over: the record of its
\* last get_config call is dropped.
InitLogging ==
    /\ pc = "logging"
    /\ \E ok \in BOOLEAN :
         IF ok THEN pc' = "construct" /\ UNCHANGED endVars
         ELSE Propagate("OSError", "logging")
    /\ last' = [name |-> "none"]
    /\ UNCHANGED <<iniFile, iniSections, cfgIdx, anySupplied, CHANNEL, POLLING_RATE>>
    /\ UNCHANGED <<sensor, slotVars, loopVars, countVars>>

\* SDIMoistureSensor.__init__
SensorInit ==
    /\ pc = "construct"
    /\ sensor' = [channel |-> PInt(0), spi_port |-> PInt(0), spi_device |-> PInt(0),
                  polling_rate |-> PFloat(5, 10)]
    /\ on_moisture_gain' = EventObject
    /\ on_moisture_loss' = EventObject
    /\ pc' = "wire"
    /\ UNCHANGED <<assigned, cfgVars, loopVars, countVars, endVars>>

\* the on_moisture_gain setter storing into the other slot
SetOnMoistureGain_other_slot ==
    /\ pc = "wire"
    /\ \E h \in Handlers :
         /\ on_moisture_loss' = h
         /\ assigned' = [assigned EXCEPT !.gain = h]
    /\ UNCHANGED <<pc, cfgVars, sensor, on_moisture_gain, loopVars, countVars, endVars>>

\* the setter of the on_moisture_gain property
SetOnMoistureGain ==
    /\ pc = "wire"
    /\ \E h \in Handlers :
         /\ on_moisture_gain' = h
         /\ assigned' = [assigned EXCEPT !.gain = h]
    /\ UNCHANGED <<pc, cfgVars, sensor, on_moisture_loss, loopVars, countVars, endVars>>

\* the setter of the on_moisture_loss property
SetOnMoistureLoss ==
    /\ pc = "wire"
    /\ \E h \in Handlers :
         /\ on_moisture_loss' = h
         /\ assigned' = [assigned EXCEPT !.loss = h]
    /\ UNCHANGED <<pc, cfgVars, sensor, on_moisture_gain, loopVars, countVars, endVars>>

\* run starting from 0 instead of -1
RunStart_from_zero ==
    /\ pc = "wire"
    /\ prev_value' = 0
    /\ pc' = "read"
    /\ UNCHANGED <<cfgVars, sensor, slotVars, value, readings, transitions, invoked,
                   nReads, nCalls, fault, io, countVars, endVars>>

\* the call of run, up to the head of its loop
RunStart ==
    /\ pc = "wire"
    /\ prev_value' = -1
    /\ pc' = "read"
    /\ UNCHANGED <<cfgVars, sensor, slotVars, value, readings, transitions, invoked,
                   nReads, nCalls, fault, io, countVars, endVars>>

\* value = self.mcp3008.read_adc( self.channel ), returning a value
Read ==
    /\ pc = "read"
    /\ nReads < MaxIter
    /\ \E v \in Readings :
         /\ value' = v
         /\ readings' = Append(readings, v)
    /\ nReads' = nReads + 1
    /\ io' = [io EXCEPT !.channel = sensor.channel]
    /\ pc' = "dispatch"
    /\ UNCHANGED <<cfgVars, sensor, slotVars, prev_value, transitions, invoked, nCalls,
                   fault, countVars, endVars>>

\* a read fault that skips the tick and keeps the loop running
ReadFault_retry ==
    /\ pc = "read"
    /\ nReads < MaxIter
    /\ fault' \in {"transient", "permanent"}
    /\ nReads' = nReads + 1
    /\ io' = [io EXCEPT !.channel = sensor.channel]
    /\ pc' = "sleep"
    /\ UNCHANGED <<cfgVars, sensor, slotVars, prev_value, value, readings, transitions,
                   invoked, nCalls, countVars, endVars>>

\* read_adc raising: the acquisition fault is one the next read would not
\* meet again ("transient") or one that stays ("permanent"); run has no
\* handler for either
ReadFault ==
    /\ pc = "read"
    /\ nReads < MaxIter
    /\ fault' \in {"transient", "permanent"}
    /\ nReads' = nReads + 1
    /\ io' = [io EXCEPT !.channel = sensor.channel]
    /\ Propagate("IOError", "read")
    /\ UNCHANGED <<cfgVars, sensor, slotVars, prev_value, value, readings, transitions,
                   invoked, nCalls, countVars>>

\* handle_moisture_gain counting a transition twice
handle_moisture_gain_twice ==
    /\ GAIN_COUNT' = GAIN_COUNT + 2
    /\ UNCHANGED LOSS_COUNT

\* the body of handle_moisture_gain
handle_moisture_gain ==
    /\ GAIN_COUNT' = GAIN_COUNT + 1
    /\ UNCHANGED LOSS_COUNT

\* handle_moisture_loss counting on the wrong counter
handle_moisture_loss_miscount ==
    /\ GAIN_COUNT' = GAIN_COUNT + 1
    /\ UNCHANGED LOSS_COUNT

\* the body of handle_moisture_loss
handle_moisture_loss ==
    /\ LOSS_COUNT' = LOSS_COUNT + 1
    /\ UNCHANGED GAIN_COUNT

\* an iteration that forgets prev_value = value
Dispatch_stale_prev ==
    /\ pc = "dispatch"
    /\ LET tr == Classify(prev_value, value)
           slot == IF tr = "Gain" THEN "gain" ELSE IF tr = "Loss" THEN "loss" ELSE "none"
           h == IF tr = "Gain" THEN on_moisture_gain
                ELSE IF tr = "Loss" THEN on_moisture_loss ELSE "none"
       IN /\ transitions' = Append(transitions, tr)
          /\ invoked' = [slot |-> slot, handler |-> h]
          /\ nCalls' = nCalls + (IF tr = "None" THEN 0 ELSE 1)
          /\ IF h = EventObject
             THEN /\ Propagate("TypeError", "handler")
                  /\ UNCHANGED countVars
             ELSE /\ CASE h = "handle_moisture_gain" -> handle_moisture_gain
                       [] h = "handle_moisture_loss" -> handle_moisture_loss
                       [] OTHER -> UNCHANGED countVars
                  /\ pc' = "sleep"
                  /\ UNCHANGED endVars
    /\ UNCHANGED <<cfgVars, sensor, slotVars, prev_value, value, readings, nReads, fault, io>>

\* the comparison, the handler call and prev_value = value of one iteration;
\* calling the Event object of an unreplaced slot raises TypeError
Dispatch ==
    /\ pc = "dispatch"
    /\ LET tr == Classify(prev_value, value)
           slot == IF tr = "Gain" THEN "gain" ELSE IF tr = "Loss" THEN "loss" ELSE "none"
           h == IF tr = "Gain" THEN on_moisture_gain
                ELSE IF tr = "Loss" THEN on_moisture_loss ELSE "none"
       IN /\ transitions' = Append(transitions, tr)
          /\ invoked' = [slot |-> slot, handler |-> h]
          /\ nCalls' = nCalls + (IF tr = "None" THEN 0 ELSE 1)
          /\ IF h = EventObject
             THEN /\ Propagate("TypeError", "handler")
                  /\ UNCHANGED <<countVars, prev_value>>
             ELSE /\ CASE h = "handle_moisture_gain" -> handle_moisture_gain
                       [] h = "handle_moisture_loss" -> handle_moisture_loss
                       [] OTHER -> UNCHANGED countVars
                  /\ prev_value' = value
                  /\ pc' = "sleep"
                  /\ UNCHANGED endVars
    /\ UNCHANGED <<cfgVars, sensor, slotVars, value, readings, nReads, fault, io>>

\* time.sleep( self.polling_rate )
Sleep ==
    /\ pc = "sleep"
    /\ io' = [io EXCEPT !.slept = sensor.polling_rate]
    /\ pc' = "read"
    /\ UNCHANGED <<cfgVars, sensor, slotVars, prev_value, value, readings, transitions,
                   invoked, nReads, nCalls, fault, countVars, endVars>>

\* an interrupt that is swallowed where it arrives, the loop going on
Interrupt_resumes ==
    /\ pc \in {"logging", "construct", "wire", "read", "dispatch", "sleep"}
    /\ exc' = [name |-> "KeyboardInterrupt", at |-> pc]
    /\ UNCHANGED <<pc, exiting, exit_code, cfgVars, sensor, slotVars, loopVars, countVars>>

\* Ctrl-C while the try statement is executing
Interrupt ==
    /\ pc \in {"logging", "construct", "wire", "read", "dispatch", "sleep"}
    /\ Propagate("KeyboardInterrupt", pc)
    /\ UNCHANGED <<cfgVars, sensor, slotVars, loopVars, countVars>>

\* Ctrl-C while the configuration is loading, outside the try statement
InterruptConfig ==
    /\ pc \in {"start", "config"}
    /\ Crash("KeyboardInterrupt", pc)
    /\ UNCHANGED <<cfgVars, sensor, slotVars, loopVars, countVars>>

\* except ( KeyboardInterrupt, EOFError ): pass, the finally clause, and
\* the end of the process
Finally ==
    /\ pc = "finally"
    /\ exiting' = exiting + 1
    /\ exit_code' = IF exc.name \in Caught THEN 0 ELSE 1
    /\ pc' = "exited"
    /\ UNCHANGED <<exc, cfgVars, sensor, slotVars, loopVars, countVars>>

Next ==
    \/ ConfigInit
    \/ ResolveSetting
    \/ InitLogging
    \/ SensorInit
    \/ SetOnMoistureGain
    \/ SetOnMoistureLoss
    \/ RunStart
    \/ Read
    \/ ReadFault
    \/ Dispatch
    \/ Sleep
    \/ Interrupt
    \/ InterruptConfig
    \/ Finally

Spec == Init /\ [][Next]_vars

(***************************************************************************)
(* Properties.                                                             *)
(***************************************************************************)
SettingNamed(n) == CHOOSE s \in {Settings[i] : i \in 1..NSettings} : s.name = n
Called == last.name # "none"
Classified == Len(transitions') = Len(transitions) + 1
Wired ==
    /\ on_moisture_gain = "handle_moisture_gain"
    /\ on_moisture_loss = "handle_moisture_loss"

\* C1: every iteration that classifies a reading invokes the gain slot when
\* the reading is below prev_value, the loss slot when it is above, and no
\* slot when they are equal; the pair (prev_value, value) alone decides it.
C1_ClassifyByPair ==
    [][Classified =>
         /\ value < prev_value =>
              /\ transitions'[Len(transitions')] = "Gain"
              /\ invoked' = [slot |-> "gain", handler |-> on_moisture_gain]
              /\ nCalls' = nCalls + 1
         /\ value > prev_value =>
              /\ transitions'[Len(transitions')] = "Loss"
              /\ invoked' = [slot |-> "loss", handler |-> on_moisture_loss]
              /\ nCalls' = nCalls + 1
         /\ value = prev_value =>
              /\ transitions'[Len(transitions')] = "None"
              /\ invoked' = NoCall
              /\ nCalls' = nCalls]_vars

C1_Witness ==
    /\ Len(transitions) >= 3
    /\ {"Gain", "Loss", "None"} \subseteq {transitions[i] : i \in 1..Len(transitions)}
    /\ invoked.slot = "gain"

Scenario == <<600, 600, 550, 700>>

\* C2 as stated: from prev_value = -1 the readings 600, 600, 550, 700 give
\* Gain, None, Gain, Loss and end with GAIN_COUNT = 2, LOSS_COUNT = 1.
C2_ScenarioAsStated ==
    (Wired /\ readings = Scenario /\ Len(transitions) = 4) =>
        /\ transitions = <<"Gain", "None", "Gain", "Loss">>
        /\ GAIN_COUNT = 2
        /\ LOSS_COUNT = 1

\* C2 amended: from prev_value = -1 the readings 600, 600, 550, 700 give
\* Loss, None, Gain, Loss and end with GAIN_COUNT = 1, LOSS_COUNT = 2.
C2_Scenario ==
    (Wired /\ readings = Scenario /\ Len(transitions) = 4) =>
        /\ transitions = <<"Loss", "None", "Gain", "Loss">>
        /\ GAIN_COUNT = 1
        /\ LOSS_COUNT = 2

C2_Witness == Wired /\ readings = Scenario /\ Len(transitions) = 4 /\ pc = "sleep"

\* C3: whenever get_config is called for a setting whose command-line
\* argument was supplied, it returns the text of that argument, whatever
\* the environment and the file hold.
C3_ArgumentWins ==
    (Called /\ last.arg # None) =>
        /\ last.returned = Str(last.arg)
        /\ last.returned.t = "str"
        /\ ToInt(last.returned) = last.arg

C3_Witness ==
    /\ Called
    /\ last.arg = PInt(0)
    /\ last.env # None
    /\ last.option # None
    /\ last.returned = PStr(<<"0">>)

\* C4 as stated: for every setting, with no argument and the environment
\* variable set, what get_config returns is the environment variable's
\* value (checked on the calls that return).
C4_EnvWinsForAll ==
    (Called /\ last.arg = None /\ last.env # None /\ last.returned.t # "raise") =>
        last.returned = last.env

EnvSettings == {"CHANNEL", "SPI_PORT", "SPI_DEVICE", "POLLING_RATE"}

\* C4 amended: for CHANNEL, SPI_PORT, SPI_DEVICE and POLLING_RATE, with no
\* argument and the environment variable set, get_config returns the
\* environment variable's value whatever the file holds; for every other
\* setting the environment is not consulted and the result comes from the
\* file lookup alone.
C4_EnvWinsWhereEnabled ==
    (Called /\ last.arg = None /\ last.env # None) =>
        IF last.name \in EnvSettings
        THEN last.returned = last.env
        ELSE /\ last.returned # last.env
             /\ \/ last.returned.t = "raise"
                \/ /\ last.section
                   /\ last.option # None
                   /\ last.name # "LOG_ENABLE" => last.returned = last.option

C4_Witness ==
    /\ Called
    /\ last.name = "POLLING_RATE"
    /\ last.arg = None
    /\ last.env = PStr(<<"3">>)
    /\ last.option # None
    /\ last.returned = PStr(<<"3">>)
    /\ last.resolved = PFloat(3, 1)

\* C5 as stated: when the handler invoked for a Loss raises, the loop stays
\* Running and has set prev_value to the value read.
C5_HandlerFailureAbsorbed ==
    (invoked.slot = "loss" /\ exc.at = "handler") =>
        /\ LoopState = "Running"
        /\ prev_value = value

\* C6 as stated: after a transient read fault the process is still running
\* its loop, with prev_value untouched, about to read again.
C6_TransientFaultRetried ==
    fault = "transient" => LoopState = "Running"

\* C7: a permanent read fault takes the loop out of Running at once; from
\* then on no read and no handler call happens, and the only step left is
\* the one that ends the process.
C7_PermanentFaultStops ==
    /\ [](fault = "permanent" =>
            \/ LoopState = "Stopped"
            \/ LoopState = "Stopping" /\ ENABLED Finally)
    /\ [][fault = "permanent" =>
            /\ nReads' = nReads
            /\ nCalls' = nCalls
            /\ UNCHANGED countVars
            /\ LoopState' = "Stopped"]_vars

C7_Witness ==
    /\ fault = "permanent"
    /\ LoopState = "Stopped"
    /\ Len(readings) >= 2
    /\ exiting = 1

\* C8 as stated: with a malformed file and no argument or environment
\* variable, no error is raised and each setting resolves to its default.
C8_MalformedFileGivesDefaults ==
    (iniFile = "malformed" /\ ~anySupplied /\ pc # "start"
        /\ exc.name # "KeyboardInterrupt") =>
        /\ exc = NoExc
        /\ Called => last.resolved =
                        Coerce(SettingNamed(last.name).coerce,
                               Str(SettingNamed(last.name).default))

\* C9 as stated: with no argument, no environment variable and no value in
\* the file (no file, no section or no option), get_config returns the
\* default.
C9_DefaultWhenNoSource ==
    (Called /\ last.arg = None /\ last.env = None
        /\ (~last.section \/ last.option = None)) =>
        last.returned = Str(SettingNamed(last.name).default)

\* C10: an iteration whose reading equals prev_value leaves GAIN_COUNT and
\* LOSS_COUNT as they are and calls no handler, however many equal
\* readings follow one another.
C10_EqualReadingNoEffect ==
    [][(Classified /\ value = prev_value) =>
         /\ GAIN_COUNT' = GAIN_COUNT
         /\ LOSS_COUNT' = LOSS_COUNT
         /\ nCalls' = nCalls
         /\ invoked'.handler = "none"]_vars

C10_Witness ==
    /\ Len(transitions) >= 3
    /\ readings[1] = readings[2]
    /\ readings[2] = readings[3]
    /\ transitions[2] = "None"
    /\ transitions[3] = "None"
    /\ GAIN_COUNT + LOSS_COUNT = nCalls
    /\ nCalls = 1

\* C11: GAIN_COUNT and LOSS_COUNT never decrease; with the two handlers
\* wired as the script wires them, an iteration classified Gain adds
\* exactly 1 to GAIN_COUNT and leaves LOSS_COUNT alone, and an iteration
\* classified Loss adds exactly 1 to LOSS_COUNT and leaves GAIN_COUNT alone.
C11_CountersMonotonic ==
    [][/\ GAIN_COUNT' >= GAIN_COUNT
       /\ LOSS_COUNT' >= LOSS_COUNT
       /\ (Wired /\ Classified /\ value < prev_value) =>
              (GAIN_COUNT' = GAIN_COUNT + 1 /\ LOSS_COUNT' = LOSS_COUNT)
       /\ (Wired /\ Classified /\ value > prev_value) =>
              (LOSS_COUNT' = LOSS_COUNT + 1 /\ GAIN_COUNT' = GAIN_COUNT)]_vars

C11_Witness ==
    /\ Wired
    /\ GAIN_COUNT = 2
    /\ LOSS_COUNT = 2
    /\ Len(transitions) = 4

\* C12 as stated: every read_adc is made on the resolved CHANNEL and every
\* sleep lasts the resolved POLLING_RATE.
C12_LoopUsesResolvedConfig ==
    /\ nReads > 0 => io.channel = CHANNEL
    /\ io.slept # None => io.slept = POLLING_RATE

InterruptedRunning ==
    /\ exc.name = "KeyboardInterrupt"
    /\ exc.at \in {"read", "dispatch", "sleep"}

\* C13: after an interrupt that arrives while the loop is reading,
\* dispatching or sleeping, no read and no handler call happens any more,
\* 'Exiting...' is logged exactly once, the process reaches Stopped, and
\* nothing happens after Stopped.
C13_InterruptStops ==
    /\ [](InterruptedRunning =>
            \/ LoopState = "Stopped" /\ exiting = 1
            \/ LoopState = "Stopping" /\ exiting = 0 /\ ENABLED Finally)
    /\ [][InterruptedRunning =>
            /\ nReads' = nReads
            /\ nCalls' = nCalls
            /\ UNCHANGED countVars
            /\ exiting' = 1
            /\ LoopState' = "Stopped"]_vars
    /\ [][LoopState # "Stopped"]_vars

C13_Witness ==
    /\ InterruptedRunning
    /\ exc.at = "dispatch"
    /\ nReads = 2
    /\ LoopState = "Stopped"
    /\ exiting = 1

\* C14 as stated: the process exits with 0 exactly when it was ended by a
\* user interrupt (the only clean way out of an endless loop), and with a
\* non-zero status after a configuration error or a permanent read fault.
C14_ExitCode ==
    pc = "exited" =>
        /\ exit_code = 0 <=> exc.name = "KeyboardInterrupt"
        /\ (exc.at = "config" /\ exc.name # "KeyboardInterrupt") => exit_code # 0
        /\ fault = "permanent" => exit_code # 0

IntSettings == {"CHANNEL", "SPI_PORT", "SPI_DEVICE", "SMTP_PORT", "LOG_MAXSIZE"}
NotAnInt == {PStr(<<"a">>), PStr(<<"0", ".", "5">>), PStr(<<"o", "n">>)}
NotAFloat == {PStr(<<"a">>), PStr(<<"o", "n">>)}
Uncoercible ==
    /\ Called
    /\ \/ last.name \in IntSettings /\ last.returned \in NotAnInt
       \/ last.name = "POLLING_RATE" /\ last.returned \in NotAFloat
       \/ last.name = "LOG_ENABLE" /\ last.option = PStr(<<"2">>)

\* C15: once a source has supplied a text that is not of the setting's
\* type (not an integer for an int setting, not a number for POLLING_RATE,
\* not a boolean word for LOG_ENABLE), the process has ended with
\* ValueError and status 1, the sensor was never built, and no read and no
\* handler call has happened or will happen.
C15_CoercionFailureFatal ==
    Uncoercible =>
        /\ pc = "exited"
        /\ exc = [name |-> "ValueError", at |-> "config"]
        /\ exit_code = 1
        /\ sensor = None
        /\ nReads = 0
        /\ nCalls = 0
        /\ ~ENABLED Next

C15_Witness ==
    /\ Uncoercible
    /\ last.name = "SMTP_PORT"
    /\ last.option = PStr(<<"0", ".", "5">>)
    /\ CHANNEL = PInt(3)
    /\ pc = "exited"

\* C16 as stated: a Gain or Loss that reaches a slot still holding what
\* __init__ put there has no effect and raises nothing, and the loop goes
\* on to its sleep and the next reading.
C16_DefaultHandlerNoOp ==
    invoked.handler = EventObject =>
        /\ exc.name # "TypeError"
        /\ exc = NoExc => pc \in {"sleep", "read", "dispatch"}

SlotValue(a) == IF a = "none" THEN EventObject ELSE a

\* C17: from the construction of the sensor on, each slot holds the last
\* value given to its own setter (a call of the other setter leaves it
\* alone), and every Gain calls the value last given to the gain setter,
\* every Loss the value last given to the loss setter.
C17_SetterReplacesSlot ==
    /\ [](sensor # None =>
            /\ on_moisture_gain = SlotValue(assigned.gain)
            /\ on_moisture_loss = SlotValue(assigned.loss))
    /\ [][Classified =>
            /\ value < prev_value => invoked'.handler = SlotValue(assigned.gain)
            /\ value > prev_value => invoked'.handler = SlotValue(assigned.loss)]_vars

C17_Witness ==
    /\ assigned.loss = "handle_moisture_gain"
    /\ assigned.gain = "none"
    /\ on_moisture_gain = EventObject
    /\ invoked = [slot |-> "loss", handler |-> "handle_moisture_gain"]
    /\ GAIN_COUNT = 1
    /\ LOSS_COUNT = 0
    /\ pc = "sleep"

\* C18: the first reading, whatever it is (0 included), is classified Loss:
\* the first iteration makes one call, to the loss slot, and with the
\* script's handlers wired LOSS_COUNT is 1 and GAIN_COUNT is 0 after it.
C18_FirstReadingIsLoss ==
    /\ Len(transitions) >= 1 => (readings[1] >= 0 /\ transitions[1] = "Loss")
    /\ Len(transitions) = 1 =>
         /\ invoked = [slot |-> "loss", handler |-> on_moisture_loss]
         /\ nCalls = 1
         /\ Wired => (LOSS_COUNT = 1 /\ GAIN_COUNT = 0)

C18_Witness ==
    /\ Wired
    /\ readings = <<0>>
    /\ transitions = <<"Loss">>
    /\ LOSS_COUNT = 1
    /\ GAIN_COUNT = 0
    /\ pc = "sleep"

LastReading == readings[Len(readings)]

\* C19: when an iteration ends, prev_value is the value just read, whatever
\* the classification was; so the comparison of the next iteration is
\* between two consecutive readings (the first against -1).
C19_PrevIsLastReading ==
    /\ (pc = "sleep" \/ (pc = "read" /\ Len(readings) >= 1)) =>
         (prev_value = value /\ prev_value = LastReading)
    /\ pc = "dispatch" =>
         /\ value = LastReading
         /\ prev_value = IF Len(readings) = 1 THEN -1 ELSE readings[Len(readings) - 1]

C19_Witness ==
    /\ pc = "sleep"
    /\ Len(transitions) = 3
    /\ {"Gain", "Loss", "None"} = {transitions[i] : i \in 1..3}
    /\ transitions[3] = "None"
    /\ prev_value = readings[3]
====
